---- MODULE Spec2Model ----
(***************************************************************************)
(* Model of card_layout (src/card_positioning.py), the spacing calculator  *)
(* of a FreeCell tableau column.                                           *)
(*                                                                         *)
(* The module-level names window_height, card_height, pixel_visibility and *)
(* max_cards that the function reads are the configuration; they are fixed *)
(* by Init and never change.  Each step is one call of card_layout with    *)
(* some current_card_count; the call either returns the list allocations   *)
(* or raises ZeroDivisionError.                                            *)
(*                                                                         *)
(* Python's true division yields non-integers, so numbers are exact        *)
(* rationals <<numerator, denominator>> in lowest terms with a positive    *)
(* denominator.  Rounding of binary floating point is not modelled.        *)
(***************************************************************************)
EXTENDS Integers, Sequences, FiniteSets

VARIABLES window_height, card_height, pixel_visibility, max_cards,
          current_card_count, outcome, allocations

vars == <<window_height, card_height, pixel_visibility, max_cards,
          current_card_count, outcome, allocations>>

(* ---------------- bounds and input sets ---------------- *)

MaxCount == 12

CardCounts == (0 - 2) .. MaxCount

WindowHeights == {150, 800}

CardHeights == {50, 200}

PixelVisibilities == {0, 40, 100}

MaxCardsValues == {1, 3, 10}

(* ---------------- exact rational arithmetic ---------------- *)

Abs(x) == IF x < 0 THEN 0 - x ELSE x

RECURSIVE GCD(_, _)
GCD(a, b) == IF b = 0 THEN a ELSE GCD(b, a % b)

\* a / b for integers a, b with b # 0, in lowest terms
Frac(a, b) ==
    LET g == GCD(Abs(a), Abs(b))
        s == IF b < 0 THEN 0 - 1 ELSE 1
    IN  <<(s * a) \div g, (s * b) \div g>>

Rat(n) == <<n, 1>>

RSub(x, y) == Frac(x[1] * y[2] - y[1] * x[2], x[2] * y[2])

RAdd(x, y) == Frac(x[1] * y[2] + y[1] * x[2], x[2] * y[2])

RMul(x, y) == Frac(x[1] * y[1], x[2] * y[2])

\* x / y, defined for y # 0 only (Python raises ZeroDivisionError otherwise)
RDiv(x, y) == Frac(x[1] * y[2], x[2] * y[1])

RLeq(x, y) == x[1] * y[2] <= y[1] * x[2]

RLess(x, y) == x[1] * y[2] < y[1] * x[2]

RMax(x, y) == IF RLess(x, y) THEN y ELSE x

\* math.ceil: the least integer >= x
RCeil(x) == 0 - ((0 - x[1]) \div x[2])

RECURSIVE RSum(_)
RSum(s) == IF s = <<>> THEN Rat(0) ELSE RAdd(Head(s), RSum(Tail(s)))

(* ---------------- card_layout ---------------- *)

COMPRESSED_CARD_GROUP_SIZE == 4

\* COMPRESSION_FACTOR = card_height * (2 / 100)
COMPRESSION_FACTOR == RMul(Rat(card_height), Frac(2, 100))

\* min_num_cards = ceil((window_height - card_height) / pixel_visibility)
min_num_cards ==
    RCeil(RDiv(Rat(window_height - card_height), Rat(pixel_visibility)))

\* min_pixel_visibility = (window_height - card_height) / (max_cards - 1)
min_pixel_visibility ==
    RDiv(Rat(window_height - card_height), Rat(max_cards - 1))

excess(n) == n - min_num_cards

compression_visibility_nofloor(n) ==
    RSub(Rat(pixel_visibility), RMul(Rat(excess(n)), COMPRESSION_FACTOR))

\* max(pixel_visibility - excess * COMPRESSION_FACTOR, min_pixel_visibility)
compression_visibility(n) ==
    RMax(RSub(Rat(pixel_visibility), RMul(Rat(excess(n)), COMPRESSION_FACTOR)),
         min_pixel_visibility)

leftover_visibility_groupdenominator(n) ==
    RDiv(RSub(Rat(window_height - card_height),
              RMul(compression_visibility(n), Rat(COMPRESSED_CARD_GROUP_SIZE))),
         Rat(n - COMPRESSED_CARD_GROUP_SIZE))

\* (window_height - card_height - compression_visibility * GROUP) / (n - GROUP - 1)
leftover_visibility(n) ==
    RDiv(RSub(Rat(window_height - card_height),
              RMul(compression_visibility(n), Rat(COMPRESSED_CARD_GROUP_SIZE))),
         Rat(n - COMPRESSED_CARD_GROUP_SIZE - 1))

\* a variant that would evaluate leftover_visibility only on the compressed path
raises_lazy(n) ==
    \/ pixel_visibility = 0
    \/ max_cards - 1 = 0
    \/ (pixel_visibility # 0 /\ n > min_num_cards
        /\ n - COMPRESSED_CARD_GROUP_SIZE - 1 = 0)

\* The divisions of lines 8, 10 and 14 are evaluated on every call, in this
\* order, before the loop; a zero divisor raises ZeroDivisionError.
raises(n) ==
    \/ pixel_visibility = 0
    \/ max_cards - 1 = 0
    \/ n - COMPRESSED_CARD_GROUP_SIZE - 1 = 0

\* the shift given to card i (0-based) when i is not the bottom card
shift(n, i) ==
    IF n <= min_num_cards
    THEN Rat(pixel_visibility)
    ELSE IF n - i <= COMPRESSED_CARD_GROUP_SIZE
         THEN compression_visibility(n)
         ELSE leftover_visibility(n)

allocation_nocontinue(n, i) == shift(n, i)

\* allocations[i] after the loop: the bottom card keeps its initial 0
allocation(n, i) == IF i = n - 1 THEN Rat(0) ELSE shift(n, i)

\* [0] * n is the empty list for n <= 0, and range(n) is then empty
layout(n) == [k \in 1 .. (IF n > 0 THEN n ELSE 0) |-> allocation(n, k - 1)]

Init ==
    /\ window_height \in WindowHeights
    /\ card_height \in CardHeights
    /\ pixel_visibility \in PixelVisibilities
    /\ max_cards \in MaxCardsValues
    /\ current_card_count = 0
    /\ outcome = "none"
    /\ allocations = <<>>

\* one call card_layout(n)
card_layout(n) ==
    /\ current_card_count' = n
    /\ IF raises(n)
       THEN /\ outcome' = "ZeroDivisionError"
            /\ allocations' = <<>>
       ELSE /\ outcome' = "returned"
            /\ allocations' = layout(n)
    /\ UNCHANGED <<window_height, card_height, pixel_visibility, max_cards>>

Next == \E n \in CardCounts : card_layout(n)

Spec == Init /\ [][Next]_vars

(* ---------------- vocabulary of the properties ---------------- *)

\* viewportHeight > cardHeight > 0, maxCards > 1, defaultVisibility > 0
ValidConfig ==
    /\ window_height > card_height
    /\ card_height > 0
    /\ max_cards > 1
    /\ pixel_visibility > 0

Called == outcome # "none"

Returned == outcome = "returned"

Available == Rat(window_height - card_height)

NonBottom == 1 .. (current_card_count - 1)

\* 1-based positions of the non-bottom cards with cardCount - i <= group size
GroupPositions ==
    {k \in NonBottom : current_card_count - (k - 1) <= COMPRESSED_CARD_GROUP_SIZE}

ConcreteScenario ==
    /\ window_height = 800
    /\ card_height = 200
    /\ pixel_visibility = 100
    /\ max_cards = 10

(* ---------------- C1 ---------------- *)

\* C1: in a valid configuration, whenever card_layout returns for a card
\* count above COMPRESSED_CARD_GROUP_SIZE + 1, the offsets sum to
\* window_height - card_height.
C1_SumToFit ==
    (ValidConfig /\ Returned
        /\ current_card_count > COMPRESSED_CARD_GROUP_SIZE + 1)
    => RSum(allocations) = Available

(* ---------------- C2 ---------------- *)

\* C2: in a valid configuration, every call with 1 <= cardCount <=
\* min_num_cards returns, and every non-bottom offset is pixel_visibility.
C2_UncompressedPath ==
    (ValidConfig /\ Called
        /\ 1 <= current_card_count /\ current_card_count <= min_num_cards)
    => /\ Returned
       /\ \A k \in NonBottom : allocations[k] = Rat(pixel_visibility)

(* ---------------- C3 ---------------- *)

\* C3: in the concrete scenario with 12 cards, compression_visibility is 76,
\* the cards at indices 7..10 are all spaced 76, every earlier card is spaced
\* leftover_visibility, and the last element is 0.
C3_ConcreteScenario ==
    (ConcreteScenario /\ Called /\ current_card_count = 12)
    => /\ Returned
       /\ compression_visibility(12) = Rat(76)
       /\ \A k \in 8 .. 11 : allocations[k] = Rat(76)
       /\ \A k \in 1 .. 7 : allocations[k] = leftover_visibility(12)
       /\ allocations[12] = Rat(0)

(* ---------------- C4 ---------------- *)

\* C4 (as stated): on the compressed path, compression_visibility is at most
\* every non-bottom offset of the result.
C4_GroupMostCompressed ==
    (ValidConfig /\ Returned /\ current_card_count > min_num_cards)
    => \A k \in NonBottom :
          RLeq(compression_visibility(current_card_count), allocations[k])

\* C4 (amended): on the compressed path, the offset of the bottommost group
\* is at most every other non-bottom offset exactly when no card lies above
\* the group or group offset * (cardCount - 1) <= window_height - card_height;
\* otherwise the cards above the group are spaced more tightly than the group.
C4_GroupMostCompressedIff ==
    (ValidConfig /\ Returned /\ current_card_count > min_num_cards
        /\ current_card_count >= 2)
    => LET group == allocations[current_card_count - 1]
       IN  (\A k \in NonBottom : RLeq(group, allocations[k]))
           <=> \/ current_card_count <= COMPRESSED_CARD_GROUP_SIZE
               \/ RLeq(RMul(group, Rat(current_card_count - 1)), Available)

\* a compressed layout whose leftover cards are tighter than the group
C4_Witness ==
    /\ ValidConfig /\ Returned
    /\ current_card_count > min_num_cards
    /\ current_card_count > COMPRESSED_CARD_GROUP_SIZE + 1
    /\ RLess(allocations[1], allocations[current_card_count - 1])

(* ---------------- C5 ---------------- *)

\* C5 (as stated): whenever card_layout returns in a valid configuration,
\* every non-bottom offset is at least min_pixel_visibility.
C5_FloorEveryOffset ==
    (ValidConfig /\ Returned /\ current_card_count >= 1)
    => \A k \in NonBottom : RLeq(min_pixel_visibility, allocations[k])

\* C5 (amended): on the compressed path, every non-bottom offset of the
\* bottommost group (cardCount - i <= COMPRESSED_CARD_GROUP_SIZE) is at least
\* min_pixel_visibility.
C5_FloorGroupOffsets ==
    (ValidConfig /\ Returned /\ current_card_count > min_num_cards)
    => \A k \in GroupPositions : RLeq(min_pixel_visibility, allocations[k])

\* a compressed layout in which the floor is what the group is spaced by
C5_Witness ==
    /\ ValidConfig /\ Returned
    /\ current_card_count > min_num_cards
    /\ GroupPositions # {}
    /\ \A k \in GroupPositions : allocations[k] = min_pixel_visibility
    /\ RLess(Rat(pixel_visibility), min_pixel_visibility)

(* ---------------- C6 ---------------- *)

\* C6: whenever card_layout returns in a valid configuration for
\* cardCount >= 1, every element of the result is >= 0.
C6_NonNegativeOffsets ==
    (ValidConfig /\ Returned /\ current_card_count >= 1)
    => \A k \in 1 .. Len(allocations) : RLeq(Rat(0), allocations[k])

(* ---------------- C7 ---------------- *)

\* C7: a call with max_cards = 1 or with cardCount =
\* COMPRESSED_CARD_GROUP_SIZE + 1 ends in an error and returns no sequence.
C7_DivisionByZeroFails ==
    (Called /\ (max_cards = 1
                \/ current_card_count = COMPRESSED_CARD_GROUP_SIZE + 1))
    => outcome = "ZeroDivisionError" /\ ~Returned

\* a five-card call in a valid configuration where five cards still fit
\* at the default spacing, ending in the error
C7_Witness ==
    /\ ValidConfig
    /\ current_card_count = COMPRESSED_CARD_GROUP_SIZE + 1
    /\ current_card_count <= min_num_cards
    /\ outcome = "ZeroDivisionError"

(* ---------------- C8 ---------------- *)

\* C8: a call with cardCount <= 0 ends in an error and returns no sequence.
C8_DegenerateCountRejected ==
    (Called /\ current_card_count <= 0) => ~Returned

(* ---------------- C9 ---------------- *)

\* C9: whenever card_layout returns in a valid configuration for
\* cardCount >= 1, the result has cardCount elements and its last is 0.
C9_ResultShape ==
    (ValidConfig /\ Returned /\ current_card_count >= 1)
    => /\ Len(allocations) = current_card_count
       /\ allocations[current_card_count] = Rat(0)

\* a returned layout of the compressed branch with group and leftover cards
C9_Witness ==
    /\ ValidConfig /\ Returned
    /\ current_card_count > min_num_cards
    /\ current_card_count > COMPRESSED_CARD_GROUP_SIZE + 1
    /\ Len(allocations) = current_card_count

(* ---------------- C10 ---------------- *)

\* C10: whenever card_layout returns in a valid configuration for
\* cardCount >= 1, the offsets sum to at most window_height - card_height.
C10_NoViewportOverflow ==
    (ValidConfig /\ Returned /\ current_card_count >= 1)
    => RLeq(RSum(allocations), Available)

====
